---- MODULE Spec2Model ----
(***************************************************************************)
(* A model of web_poet.page_inputs.http (HttpResponse encoding/text        *)
(* resolution, request_fingerprint) and of web_poet.fields (the @field     *)
(* decorator, the class-level registration dict, item_from_fields and      *)
(* item_from_fields_sync).                                                 *)
(*                                                                         *)
(* Python values are modelled as follows: None is the string "None",      *)
(* str values are TLA+ strings where only equality matters and sequences  *)
(* of code points where ordering or case matters, a dict is the sequence  *)
(* of its keys in insertion order.                                         *)
(***************************************************************************)
EXTENDS Integers, Sequences, FiniteSets, TLC

VARIABLES
    \* ---- HttpResponse ----
    resp,          \* the constructed response: [encoding, headers, body]
    memo,          \* memoizemethod_noargs caches, one slot per memoized method
    cached_text,   \* HttpResponse._cached_text
    pc,            \* position of every thread inside encoding / text
    op,            \* the property a thread is evaluating
    local,         \* a thread's local variable `encoding` / `text`
    decodes,       \* number of html_to_unicode calls made on the body
    stores,        \* number of assignments made to _cached_text
    encReturned,   \* values returned by the encoding property so far
    textReturned,  \* values returned by the text property, in order
    accesses,      \* number of property accesses started
    \* ---- request_fingerprint ----
    req,           \* two constructed requests: [method, url, headers, body]
    fp,            \* the fingerprint computed for each, or NoFp
    \* ---- @field and the registration dict ----
    classes,       \* the classes created so far
    building,      \* the class whose body is being executed, or None
    namespace,     \* the assignments made so far in that class body, in order
    members,       \* per class, the attributes its body defined
    own_attr,      \* per class, the dict bound to its own _marked_as_fields (0: none)
    heap,          \* the dict objects: per dict, its keys in insertion order
    declared,      \* per class, the names that class itself marked with @field
    lastDecoration,\* the last application of the decorator and whether it raised
    lastAccess,    \* the last attribute read on an instance and its outcome
    \* ---- item_from_fields / item_from_fields_sync ----
    obj,           \* the page object: its registered names and what each field does
    item_cls,      \* the item class passed to the assemblers
    syncRes,       \* outcome of the last item_from_fields_sync call, <<>> if none
    asyncRes       \* outcome of the last item_from_fields call, <<>> if none

respVars == <<resp, memo, cached_text, pc, op, local, decodes, stores,
              encReturned, textReturned, accesses>>

fpVars == <<req, fp>>

asmVars == <<obj, item_cls, syncRes, asyncRes>>

regVars == <<classes, building, namespace, members, own_attr, heap, declared,
             lastDecoration, lastAccess>>

vars == <<resp, memo, cached_text, pc, op, local, decodes, stores,
          encReturned, textReturned, accesses, req, fp,
          classes, building, namespace, members, own_attr, heap, declared,
          lastDecoration, lastAccess, obj, item_cls, syncRes, asyncRes>>

None == "None"

(* Python truthiness of an Optional[str]: None and "" are falsy. *)
Truthy(x) == x /= None /\ x /= ""

Range(s) == {s[i] : i \in DOMAIN s}

----------------------------------------------------------------------------
(* Bounds *)
NumThreads == 2
MaxAccesses == 3

Threads == 1..NumThreads

----------------------------------------------------------------------------
(* w3lib.encoding, as used by http.py *)

(* resolve_encoding: the canonical codec name, or None for an unknown name. *)
(* w3lib translates ascii and latin-1 to cp1252.                            *)
resolve_encoding(name) ==
    CASE name = "utf-8" -> "utf-8"
      [] name = "cp1252" -> "cp1252"
      [] name = "ascii" -> "cp1252"
      [] name = "utf-16-le" -> "utf-16-le"
      [] OTHER -> None

(* A Content-Type value is <<mime, charset parameter>>; "" = no parameter. *)
http_content_type_encoding(content_type) ==
    IF content_type[2] = "" THEN None ELSE resolve_encoding(content_type[2])

(* read_bom(body)[0] *)
read_bom(body) == body.bom

html_body_declared_encoding(body) == body.meta

(* bytes.decode(enc) succeeds *)
Decodes(body, enc) == enc \in body.decodable

(* to_unicode: the decoded text is a function of the bytes and the codec. *)
to_unicode(body, enc) == <<enc, body>>

NoText == <<>>

(* HttpResponse._DEFAULT_ENCODING *)
DEFAULT_ENCODING == "ascii"

(* HttpResponse._auto_detect_fun: the first trial codec under which the body *)
(* decodes, resolved; None when the loop falls off its end.                  *)
TrialEncodings == <<DEFAULT_ENCODING, "utf-8", "cp1252">>

RECURSIVE auto_detect_from(_, _)
auto_detect_from(body, i) ==
    IF i > Len(TrialEncodings) THEN None
    ELSE IF Decodes(body, TrialEncodings[i])
         THEN resolve_encoding(TrialEncodings[i])
         ELSE auto_detect_from(body, i + 1)

auto_detect_fun(body) == auto_detect_from(body, 1)

(* w3lib.encoding.html_to_unicode (w3lib >= 2): BOM, then the Content-Type  *)
(* charset, then the in-body declaration, then auto detection, then the     *)
(* default. Returns <<encoding, text>>.                                     *)
html_to_unicode(content_type, body, auto_detect, default_encoding) ==
    LET bom_enc == read_bom(body)
        hdr_enc == http_content_type_encoding(content_type)
        meta_enc == html_body_declared_encoding(body)
        detected == IF meta_enc = None /\ auto_detect
                    THEN auto_detect_fun(body) ELSE meta_enc
        enc == IF detected = None THEN default_encoding ELSE detected
    IN  IF bom_enc /= None THEN <<bom_enc, to_unicode(body, bom_enc)>>
        ELSE IF hdr_enc /= None THEN <<hdr_enc, to_unicode(body, hdr_enc)>>
        ELSE <<enc, to_unicode(body, enc)>>

----------------------------------------------------------------------------
(* The responses the model is run on *)

Overrides == {None, "", "utf-8"}

ContentTypes == {<<"", "">>, <<"text/html", "">>,
                 <<"text/html", "utf-8">>, <<"text/html", "bogus">>}

(* A body is described by what the detection functions see in its bytes.    *)
(* ASCII bytes decode under every trial codec; a BOM is not ASCII, and the  *)
(* UTF-16 BOM is not valid UTF-8.                                           *)
Bodies ==
    { b \in [bom : {None, "utf-16-le"}, meta : {None, "cp1252"},
             decodable : SUBSET {"ascii", "utf-8", "cp1252"}] :
        /\ ("ascii" \in b.decodable => b.decodable = {"ascii", "utf-8", "cp1252"})
        /\ (b.bom /= None => b.decodable \subseteq {"cp1252"}) }

Responses == [encoding : Overrides, headers : ContentTypes, body : Bodies]

MemoMethods == {"_body_bom_encoding", "_headers_declared_encoding",
                "_body_declared_encoding", "_body_inferred_encoding"}

----------------------------------------------------------------------------
(* HttpResponse *)

(* The operands of the `or` chain of HttpResponse.encoding, in order. *)
EncodingOrder_headerFirst ==
    <<"_encoding", "_headers_declared_encoding", "_body_bom_encoding",
      "_body_declared_encoding", "_body_inferred_encoding">>

EncodingOrder == <<"_encoding", "_body_bom_encoding", "_headers_declared_encoding",
                   "_body_declared_encoding", "_body_inferred_encoding">>

(* The bodies of the four memoized methods. *)
body_inferred == html_to_unicode(resp.headers, resp.body, TRUE, DEFAULT_ENCODING)

StageValue(stage) ==
    CASE stage = "_body_bom_encoding" -> read_bom(resp.body)
      [] stage = "_headers_declared_encoding" -> http_content_type_encoding(resp.headers)
      [] stage = "_body_declared_encoding" -> html_body_declared_encoding(resp.body)
      [] stage = "_body_inferred_encoding" -> body_inferred[1]

(* memoizemethod_noargs: the method's body runs on the first call only, its *)
(* result is kept per instance. None is a result like any other.           *)
MemoCached(m) == memo[m] /= <<>>

(* `if self._cached_text is None` in text *)
TextMissing_always(ct) == TRUE

TextMissing(ct) == ct = NoText

IdleLocal == [stage |-> 0, encoding |-> None, text |-> NoText]

NoFp == <<>>

(* The class hierarchy the model builds: Left and Right derive from Base. *)
ClassNames == {"Base", "Left", "Right"}

Parent == [c \in ClassNames |-> IF c = "Base" THEN None ELSE "Base"]

NoDecoration == [kind |-> "none", form |-> "none", raised |-> FALSE]

NoAccess == <<>>

(* No class statement has been executed. *)
NoClasses ==
    /\ classes = {}
    /\ building = None
    /\ namespace = <<>>
    /\ members = [c \in ClassNames |-> <<>>]
    /\ own_attr = [c \in ClassNames |-> 0]
    /\ heap = [d \in 1..Cardinality(ClassNames) |-> <<>>]
    /\ declared = [c \in ClassNames |-> {}]
    /\ lastDecoration = NoDecoration
    /\ lastAccess = NoAccess

(* No page object has been created. *)
NoPage ==
    /\ obj = <<>>
    /\ item_cls = <<>>
    /\ syncRes = <<>>
    /\ asyncRes = <<>>

(* No request has been built. *)
NoRequests == req = <<>> /\ fp = <<>>

InitResp ==
    /\ NoRequests
    /\ NoClasses
    /\ NoPage
    /\ resp \in Responses
    /\ memo = [m \in MemoMethods |-> <<>>]
    /\ cached_text = NoText
    /\ pc = [t \in Threads |-> "idle"]
    /\ op = [t \in Threads |-> "none"]
    /\ local = [t \in Threads |-> IdleLocal]
    /\ decodes = 0
    /\ stores = 0
    /\ encReturned = {}
    /\ textReturned = <<>>
    /\ accesses = 0

(* A caller reads response.encoding *)
StartEncoding(t) ==
    /\ pc[t] = "idle"
    /\ accesses < MaxAccesses
    /\ accesses' = accesses + 1
    /\ pc' = [pc EXCEPT ![t] = "encoding"]
    /\ op' = [op EXCEPT ![t] = "encoding"]
    /\ local' = [local EXCEPT ![t] = [IdleLocal EXCEPT !.stage = 1]]
    /\ UNCHANGED <<resp, memo, cached_text, decodes, stores, encReturned, textReturned, fpVars, regVars, asmVars>>

(* A caller reads response.text; its first statement reads self.encoding *)
StartText(t) ==
    /\ pc[t] = "idle"
    /\ accesses < MaxAccesses
    /\ accesses' = accesses + 1
    /\ pc' = [pc EXCEPT ![t] = "encoding"]
    /\ op' = [op EXCEPT ![t] = "text"]
    /\ local' = [local EXCEPT ![t] = [IdleLocal EXCEPT !.stage = 1]]
    /\ UNCHANGED <<resp, memo, cached_text, decodes, stores, encReturned, textReturned, fpVars, regVars, asmVars>>

(* One operand of the `or` chain: the override attribute, or a call of a    *)
(* memoized method, which runs its body on the first call only. The body of *)
(* _body_inferred_encoding decodes the body and stores the text.            *)
EncodingStage(t) ==
    /\ pc[t] = "encoding"
    /\ LET stage == EncodingOrder[local[t].stage]
           fresh == stage /= "_encoding" /\ ~MemoCached(stage)
           v == IF stage = "_encoding" THEN resp.encoding
                ELSE IF fresh THEN StageValue(stage) ELSE memo[stage][1]
           infer == fresh /\ stage = "_body_inferred_encoding"
           last == local[t].stage = Len(EncodingOrder)
       IN  /\ memo' = IF fresh THEN [memo EXCEPT ![stage] = <<v>>] ELSE memo
           /\ decodes' = IF infer THEN decodes + 1 ELSE decodes
           /\ stores' = IF infer THEN stores + 1 ELSE stores
           /\ cached_text' = IF infer THEN body_inferred[2] ELSE cached_text
           /\ IF Truthy(v) \/ last
              THEN IF op[t] = "encoding"
                   THEN /\ encReturned' = encReturned \cup {v}
                        /\ pc' = [pc EXCEPT ![t] = "idle"]
                        /\ op' = [op EXCEPT ![t] = "none"]
                        /\ local' = [local EXCEPT ![t] = IdleLocal]
                   ELSE /\ local' = [local EXCEPT ![t].encoding = v, ![t].stage = 0]
                        /\ pc' = [pc EXCEPT ![t] = "text_check"]
                        /\ UNCHANGED <<op, encReturned>>
              ELSE /\ local' = [local EXCEPT ![t].stage = @ + 1]
                   /\ UNCHANGED <<pc, op, encReturned>>
    /\ UNCHANGED <<resp, textReturned, accesses, fpVars, regVars, asmVars>>

(* text: `if self._cached_text is None:` *)
TextCheck(t) ==
    /\ pc[t] = "text_check"
    /\ pc' = [pc EXCEPT ![t] = IF TextMissing(cached_text) THEN "text_decode"
                                ELSE "text_return"]
    /\ UNCHANGED <<resp, memo, cached_text, op, local, decodes, stores,
                   encReturned, textReturned, accesses, fpVars, regVars, asmVars>>

(* text: `encoding, text = html_to_unicode(f"charset={encoding}", self.body)` *)
TextDecode(t) ==
    /\ pc[t] = "text_decode"
    /\ local' = [local EXCEPT ![t].text =
                    html_to_unicode(<<"", local[t].encoding>>, resp.body, FALSE, "utf8")[2]]
    /\ decodes' = decodes + 1
    /\ pc' = [pc EXCEPT ![t] = "text_store"]
    /\ UNCHANGED <<resp, memo, cached_text, op, stores, encReturned, textReturned, accesses, fpVars, regVars, asmVars>>

(* text: `self._cached_text = text` *)
TextStore(t) ==
    /\ pc[t] = "text_store"
    /\ cached_text' = local[t].text
    /\ stores' = stores + 1
    /\ pc' = [pc EXCEPT ![t] = "text_return"]
    /\ UNCHANGED <<resp, memo, op, local, decodes, encReturned, textReturned, accesses, fpVars, regVars, asmVars>>

(* text: `return self._cached_text` *)
TextReturn(t) ==
    /\ pc[t] = "text_return"
    /\ textReturned' = Append(textReturned, cached_text)
    /\ pc' = [pc EXCEPT ![t] = "idle"]
    /\ op' = [op EXCEPT ![t] = "none"]
    /\ local' = [local EXCEPT ![t] = IdleLocal]
    /\ UNCHANGED <<resp, memo, cached_text, decodes, stores, encReturned, accesses, fpVars, regVars, asmVars>>

ThreadStep(t) ==
    \/ StartEncoding(t)
    \/ StartText(t)
    \/ EncodingStage(t)
    \/ TextCheck(t)
    \/ TextDecode(t)
    \/ TextStore(t)
    \/ TextReturn(t)

(* One caller: every access runs to completion before the next starts. *)
NextResp == ThreadStep(1)

SpecResp == InitResp /\ [][NextResp]_vars

(* Several threads share the response; Python may switch threads between    *)
(* any two statements.                                                      *)
NextRespConc == \E t \in Threads : ThreadStep(t)

SpecRespConc == InitResp /\ [][NextRespConc]_vars

----------------------------------------------------------------------------
(* request_fingerprint *)

(* Strings whose order or letter case matters are sequences of code points. *)
IsUpper(c) == c \in 65..90
IsLower(c) == c \in 97..122
IsCased(c) == IsUpper(c) \/ IsLower(c)
ToUpper(c) == IF IsLower(c) THEN c - 32 ELSE c
ToLower(c) == IF IsUpper(c) THEN c + 32 ELSE c

(* str.title(): a cased character is upper-cased when it follows an uncased *)
(* one (or starts the string) and lower-cased when it follows a cased one.  *)
RECURSIVE title_from(_, _, _)
title_from(s, i, prevCased) ==
    IF i > Len(s) THEN <<>>
    ELSE <<IF prevCased THEN ToLower(s[i]) ELSE ToUpper(s[i])>>
         \o title_from(s, i + 1, IsCased(s[i]))

title(s) == title_from(s, 1, FALSE)

(* Python's < on str: lexicographic by code point. *)
RECURSIVE StrLess(_, _)
StrLess(a, b) ==
    IF b = <<>> THEN FALSE
    ELSE IF a = <<>> THEN TRUE
    ELSE IF a[1] /= b[1] THEN a[1] < b[1]
    ELSE StrLess(Tail(a), Tail(b))

(* Python's < on (name, value) tuples, as sorted() applies it to the items. *)
ItemLess(p, q) == StrLess(p[1], q[1]) \/ (p[1] = q[1] /\ StrLess(p[2], q[2]))

RECURSIVE InsertSorted(_, _)
InsertSorted(x, s) ==
    IF s = <<>> THEN <<x>>
    ELSE IF ItemLess(x, s[1]) THEN <<x>> \o s
    ELSE <<s[1]>> \o InsertSorted(x, Tail(s))

(* sorted(items): stable, ascending *)
RECURSIVE sorted(_)
sorted(s) ==
    IF s = <<>> THEN <<>>
    ELSE InsertSorted(s[Len(s)], sorted(SubSeq(s, 1, Len(s) - 1)))

(* headers.items(): the (name, value) pairs in insertion order, every name  *)
(* in the letter case it was inserted with; duplicates are kept.            *)
items(headers) == headers

(* w3lib.url.canonicalize_url, as far as the modelled URLs exercise it: the *)
(* fragment (from '#', code point 35) is dropped.                           *)
RECURSIVE canonicalize_url(_)
canonicalize_url(url) ==
    IF url = <<>> \/ url[1] = 35 THEN <<>>
    ELSE <<url[1]>> \o canonicalize_url(Tail(url))

(* The bytes fed to the hash for the sorted header items:                   *)
(* f"{name.title()}:{value}\n" for each.                                    *)
RECURSIVE header_lines(_)
header_lines(its) ==
    IF its = <<>> THEN <<>>
    ELSE title(its[1][1]) \o <<58>> \o its[1][2] \o <<10>> \o header_lines(Tail(its))

(* sha1(...).hexdigest(): the digest is modelled as determined by, and      *)
(* determining, the bytes that were hashed (no collisions).                 *)
sha1_hexdigest(bytes) == <<"sha1", bytes>>

request_fingerprint(r) ==
    sha1_hexdigest(r.method \o <<10>>
                   \o canonicalize_url(r.url) \o <<10>>
                   \o header_lines(sorted(items(r.headers)))
                   \o <<10>>
                   \o r.body)

(* Bound on the number of header entries of a request *)
MaxHeaders == 2

(* "GET", "POST" *)
Methods == {<<71, 69, 84>>, <<80, 79, 83, 84>>}
(* "/p", "/p#f", "/q" *)
Urls == {<<47, 112>>, <<47, 112, 35, 102>>, <<47, 113>>}
(* "a", "A", "b", "B", "a-b" *)
HeaderNames == {<<97>>, <<65>>, <<98>>, <<66>>, <<97, 45, 98>>}
(* "1", "2" *)
HeaderValues == {<<49>>, <<50>>}
(* b"", b"x" *)
RequestBodies == {<<>>, <<120>>}

HeaderLists == UNION {[1..n -> HeaderNames \X HeaderValues] : n \in 0..MaxHeaders}

(* No response has been constructed. *)
NoResponse ==
    /\ resp = <<>>
    /\ memo = <<>>
    /\ cached_text = NoText
    /\ pc = <<>>
    /\ op = <<>>
    /\ local = <<>>
    /\ decodes = 0
    /\ stores = 0
    /\ encReturned = {}
    /\ textReturned = <<>>
    /\ accesses = 0

(* Two requests with the same method, URL and body and any headers. *)
InitFp ==
    /\ NoResponse
    /\ NoClasses
    /\ NoPage
    /\ \E m \in Methods, u \in Urls, b \in RequestBodies, h1, h2 \in HeaderLists :
          req = <<[method |-> m, url |-> u, headers |-> h1, body |-> b],
                  [method |-> m, url |-> u, headers |-> h2, body |-> b]>>
    /\ fp = <<NoFp, NoFp>>

Fingerprint(i) ==
    /\ fp[i] = NoFp
    /\ fp' = [fp EXCEPT ![i] = request_fingerprint(req[i])]
    /\ UNCHANGED <<req, respVars, regVars, asmVars>>

NextFp == \E i \in 1..2 : Fingerprint(i)

SpecFp == InitFp /\ [][NextFp]_vars

----------------------------------------------------------------------------
(* web_poet.fields: the decorator and the registration dict *)

(* Bound on the number of assignments in one class body *)
MaxBody == 2

FieldNames == {"a", "b"}

(* The values the decorator is applied to: a method, None, a number. *)
Decorated == {"callable", None, "int"}

callable(m) == m = "callable"

(* _field.__init__: TypeError for a non-callable, else the descriptor. *)
field_init_unchecked(method, cached) ==
    [kind |-> "descriptor", method |-> method, cached |-> cached]

field_init(method, cached) ==
    IF ~callable(method) THEN [kind |-> "TypeError"]
    ELSE [kind |-> "descriptor", method |-> method, cached |-> cached]

(* field(method=None, *, cached=False): with a method, the descriptor built *)
(* over it; without one, the _field class itself, to be applied later.      *)
field(method, cached) ==
    IF method /= None THEN field_init(method, cached)
    ELSE [kind |-> "field_class", cached |-> cached]

(* What a class body binds the name to, for the two ways of writing the     *)
(* decorator: field(m), and field(cached=...)(m).                           *)
Decorate(m, form, cached) ==
    IF form = "bare" THEN field(m, FALSE)
    ELSE field_init(m, field(None, cached).cached)

(* Attribute lookup of _marked_as_fields along the MRO: the dict found, 0   *)
(* when hasattr is False.                                                   *)
RECURSIVE LookupMarked(_, _)
LookupMarked(own, c) ==
    IF c = None THEN 0
    ELSE IF own[c] /= 0 THEN own[c]
    ELSE LookupMarked(own, Parent[c])

Contains(s, x) == \E i \in DOMAIN s : s[i] = x

(* A dict not yet bound to any class *)
FreshDict(own) == Cardinality({c \in ClassNames : own[c] /= 0}) + 1

(* _field.__set_name__(owner, name) on the state <<own_attr, heap>> *)
set_name(st, owner, name) ==
    LET own0 == st[1]
        own1 == IF LookupMarked(own0, owner) = 0
                THEN [own0 EXCEPT ![owner] = FreshDict(own0)]
                ELSE own0
        d == LookupMarked(own1, owner)
        hp == st[2]
    IN  <<own1, IF Contains(hp[d], name) THEN hp
                ELSE [hp EXCEPT ![d] = Append(@, name)]>>

(* type.__new__ calls __set_name__ on every _field instance of the class    *)
(* body, in definition order.                                               *)
RECURSIVE set_names(_, _, _)
set_names(st, owner, ns) ==
    IF ns = <<>> THEN st
    ELSE set_names(IF ns[1][2].kind = "descriptor"
                   THEN set_name(st, owner, ns[1][1]) ELSE st,
                   owner, Tail(ns))

(* Binding a name in the class namespace: a rebinding keeps the position. *)
Bind(ns, name, value) ==
    IF \E i \in DOMAIN ns : ns[i][1] = name
    THEN [i \in DOMAIN ns |-> IF ns[i][1] = name THEN <<name, value>> ELSE ns[i]]
    ELSE Append(ns, <<name, value>>)

(* list(getattr(cls, _FIELDS_ATTRIBUTE, {})) *)
FieldsOf(c) ==
    IF LookupMarked(own_attr, c) = 0 THEN <<>> ELSE heap[LookupMarked(own_attr, c)]

InitReg ==
    /\ NoResponse
    /\ NoRequests
    /\ NoClasses
    /\ NoPage

(* `class c(Parent[c]):` starts executing its body *)
BeginClass(c) ==
    /\ building = None
    /\ c \notin classes
    /\ Parent[c] = None \/ Parent[c] \in classes
    /\ building' = c
    /\ namespace' = <<>>
    /\ UNCHANGED <<classes, members, own_attr, heap, declared, lastDecoration,
                   lastAccess, respVars, fpVars, asmVars>>

(* `name = field(m)` or `name = field(cached=...)(m)` in the class body; a  *)
(* TypeError aborts the class statement.                                    *)
DecorateField(name, m, form, cached) ==
    /\ building /= None
    /\ Len(namespace) < MaxBody
    /\ LET r == Decorate(m, form, cached)
       IN  /\ lastDecoration' = [kind |-> m, form |-> form, raised |-> r.kind = "TypeError"]
           /\ IF r.kind = "TypeError"
              THEN building' = None /\ namespace' = <<>>
              ELSE building' = building /\ namespace' = Bind(namespace, name, r)
    /\ UNCHANGED <<classes, members, own_attr, heap, declared, lastAccess,
                   respVars, fpVars, asmVars>>

(* The class body ends: the class is created and every descriptor is told   *)
(* its owner and name.                                                      *)
EndClass ==
    /\ building /= None
    /\ LET st == set_names(<<own_attr, heap>>, building, namespace)
       IN  own_attr' = st[1] /\ heap' = st[2]
    /\ classes' = classes \cup {building}
    /\ members' = [members EXCEPT ![building] = namespace]
    /\ declared' = [declared EXCEPT ![building] =
                       {namespace[i][1] : i \in {j \in DOMAIN namespace :
                                                   namespace[j][2].kind = "descriptor"}}]
    /\ building' = None
    /\ namespace' = <<>>
    /\ UNCHANGED <<lastDecoration, lastAccess, respVars, fpVars, asmVars>>

(* The attribute as found along the MRO, <<>> when no class defines it. *)
RECURSIVE FindMember(_, _)
FindMember(c, name) ==
    IF c = None THEN <<>>
    ELSE IF \E i \in DOMAIN members[c] : members[c][i][1] = name
         THEN <<(CHOOSE e \in {members[c][i] : i \in DOMAIN members[c]} : e[1] = name)[2]>>
         ELSE FindMember(Parent[c], name)

(* Reading instance.name on an instance of c: _field.__get__ calls the      *)
(* wrapped method; any other value is returned as it is.                    *)
Access(c, name) ==
    /\ building = None
    /\ c \in classes
    /\ FindMember(c, name) /= <<>>
    /\ LET v == FindMember(c, name)[1]
       IN  lastAccess' = <<c, name,
                           IF v.kind = "descriptor" /\ ~callable(v.method)
                           THEN "TypeError" ELSE "value">>
    /\ UNCHANGED <<classes, building, namespace, members, own_attr, heap, declared,
                   lastDecoration, respVars, fpVars, asmVars>>

NextReg ==
    \/ \E c \in ClassNames : BeginClass(c)
    \/ \E name \in FieldNames, m \in Decorated, form \in {"bare", "call"},
          cached \in BOOLEAN : DecorateField(name, m, form, cached)
    \/ EndClass
    \/ \E c \in ClassNames, name \in FieldNames : Access(c, name)

SpecReg == InitReg /\ [][NextReg]_vars

----------------------------------------------------------------------------
(* web_poet.fields: item_from_fields_sync and item_from_fields *)

(* Bound on the number of fields registered on the page object's class *)
MaxFields == 3

NamePool == <<"a", "b", "c", "d", "e">>

PageFieldNames == {NamePool[i] : i \in 1..MaxFields}

(* What reading a field does: return a plain value, raise, return an        *)
(* awaitable that resolves, return an awaitable that raises when awaited.   *)
Behaviours == {"value", "raises", "awaitable", "awaitable_raises"}

(* The sequences that list every element of S once: the orders in which a   *)
(* set may be iterated.                                                     *)
Orderings(S) ==
    {s \in [1..Cardinality(S) -> S] : \A i, j \in 1..Cardinality(S) : s[i] = s[j] => i = j}

Registries == UNION {Orderings(S) : S \in SUBSET PageFieldNames}

(* Item classes: dict declares no field names; the other two do.            *)
(* ItemAdapter.get_field_names_from_class gives None for the first.         *)
ItemClasses == {[name |-> "dict", has_names |-> FALSE, names |-> {}],
                [name |-> "ItemAC", has_names |-> TRUE, names |-> {"a", "c"}],
                [name |-> "ItemABC", has_names |-> TRUE, names |-> {"a", "b", "c"}]}

dict_cls == [name |-> "dict", has_names |-> FALSE, names |-> {}]

(* getattr(obj, name): the property read of one field *)
FieldRaises(o, n) == o.impl[n] = "raises"

FieldValue(o, n) ==
    IF o.impl[n] = "value" THEN <<"value", n>> ELSE <<o.impl[n], n>>

(* ensure_awaitable(v), awaited: a plain value passes through, an awaitable *)
(* is awaited and gives its result or raises.                               *)
AwaitRaises(v) == v[1] = "awaitable_raises"

Awaited(v) == <<"value", v[2]>>

(* _without_unsupported_field_names. field_names is <<type, names>>, type   *)
(* "list" or "dict_keys"; order is the iteration order of the intersection  *)
(* set. A dict_keys object cannot be sliced: field_names[:] is a TypeError. *)
without_unsupported_field_names(cls, field_names, order) ==
    IF ~cls.has_names
    THEN IF field_names[1] = "list"
         THEN [raised |-> FALSE, names |-> field_names[2]]
         ELSE [raised |-> TRUE, names |-> <<>>]
    ELSE [raised |-> FALSE, names |-> order]

(* The orders list(set(field_names) & set(item_field_names)) may come in *)
FilterOrders(cls, names) ==
    IF cls.has_names THEN Orderings(Range(names) \cap cls.names) ELSE {<<>>}

(* {name: getattr(obj, name) for name in field_names}: the fields are read  *)
(* in order; the first one that raises ends the comprehension.              *)
RECURSIVE read_fields_swallow(_, _)
read_fields_swallow(o, names) ==
    IF names = <<>>
    THEN [raised |-> FALSE, exc |-> <<>>, kwargs |-> <<>>, evaluated |-> <<>>]
    ELSE LET n == names[1]
             rest == read_fields_swallow(o, Tail(names))
         IN  [raised |-> rest.raised, exc |-> rest.exc,
              kwargs |-> IF rest.raised THEN <<>>
                         ELSE IF FieldRaises(o, n) THEN rest.kwargs
                         ELSE <<<<n, FieldValue(o, n)>>>> \o rest.kwargs,
              evaluated |-> <<n>> \o rest.evaluated]

RECURSIVE read_fields(_, _)
read_fields(o, names) ==
    IF names = <<>>
    THEN [raised |-> FALSE, exc |-> <<>>, kwargs |-> <<>>, evaluated |-> <<>>]
    ELSE LET n == names[1]
         IN  IF FieldRaises(o, n)
             THEN [raised |-> TRUE, exc |-> <<"exc", n>>, kwargs |-> <<>>,
                   evaluated |-> <<n>>]
             ELSE LET rest == read_fields(o, Tail(names))
                  IN  [raised |-> rest.raised, exc |-> rest.exc,
                       kwargs |-> IF rest.raised THEN <<>>
                                  ELSE <<<<n, FieldValue(o, n)>>>> \o rest.kwargs,
                       evaluated |-> <<n>> \o rest.evaluated]

(* The value bound to a key of the intermediate dict *)
Lookup(kwargs, n) == (CHOOSE e \in Range(kwargs) : e[1] = n)[2]

(* {name: await ensure_awaitable(item_dict[name]) for name in field_names} *)
RECURSIVE await_fields(_, _)
await_fields(item_dict, names) ==
    IF names = <<>>
    THEN [raised |-> FALSE, exc |-> <<>>, kwargs |-> <<>>, awaited |-> <<>>]
    ELSE LET n == names[1]
             v == Lookup(item_dict, n)
         IN  IF AwaitRaises(v)
             THEN [raised |-> TRUE, exc |-> <<"exc", n>>, kwargs |-> <<>>,
                   awaited |-> <<n>>]
             ELSE LET rest == await_fields(item_dict, Tail(names))
                  IN  [raised |-> rest.raised, exc |-> rest.exc,
                       kwargs |-> IF rest.raised THEN <<>>
                                  ELSE <<<<n, Awaited(v)>>>> \o rest.kwargs,
                       awaited |-> <<n>> \o rest.awaited]

(* The outcome of an assembler call: the item (its keyword arguments in     *)
(* binding order) or the exception, with what was read and awaited on the   *)
(* way and whether the constructor was called.                              *)
Outcome(flag, raised, exc, item, evaluated, awaited) ==
    [flag |-> flag, outcome |-> IF raised THEN "raised" ELSE "item",
     exc |-> exc, item |-> item, built |-> ~raised,
     evaluated |-> evaluated, awaited |-> awaited]

item_from_fields_sync(o, cls, item_cls_fields, order) ==
    LET all == o.fields
        filtered == IF item_cls_fields
                    THEN without_unsupported_field_names(cls, <<"list", all>>, order).names
                    ELSE all
        r == read_fields(o, filtered)
    IN  Outcome(item_cls_fields, r.raised, r.exc, r.kwargs, r.evaluated, <<>>)

item_from_fields(o, cls, item_cls_fields, order) ==
    LET inner == item_from_fields_sync(o, dict_cls, FALSE, <<>>)
        keys == [i \in DOMAIN inner.item |-> inner.item[i][1]]
        f == IF item_cls_fields
             THEN without_unsupported_field_names(cls, <<"dict_keys", keys>>, order)
             ELSE [raised |-> FALSE, names |-> keys]
        a == await_fields(inner.item, f.names)
    IN  IF inner.outcome = "raised"
        THEN Outcome(item_cls_fields, TRUE, inner.exc, <<>>, inner.evaluated, <<>>)
        ELSE IF f.raised
        THEN Outcome(item_cls_fields, TRUE, <<"TypeError", "dict_keys">>, <<>>,
                     inner.evaluated, <<>>)
        ELSE Outcome(item_cls_fields, a.raised, a.exc, a.kwargs, inner.evaluated, a.awaited)

InitAsm ==
    /\ NoResponse
    /\ NoRequests
    /\ NoClasses
    /\ \E fields \in Registries :
          \E impl \in [Range(fields) -> Behaviours] :
              obj = [fields |-> fields, impl |-> impl]
    /\ item_cls \in ItemClasses
    /\ syncRes = <<>>
    /\ asyncRes = <<>>

CallSync(flag) ==
    /\ \E order \in (IF flag THEN FilterOrders(item_cls, obj.fields) ELSE {<<>>}) :
          syncRes' = <<item_from_fields_sync(obj, item_cls, flag, order)>>
    /\ UNCHANGED <<obj, item_cls, asyncRes, respVars, fpVars, regVars>>

CallAsync(flag) ==
    /\ \E order \in (IF flag THEN FilterOrders(item_cls, obj.fields) ELSE {<<>>}) :
          asyncRes' = <<item_from_fields(obj, item_cls, flag, order)>>
    /\ UNCHANGED <<obj, item_cls, syncRes, respVars, fpVars, regVars>>

NextAsm == \E flag \in BOOLEAN : CallSync(flag) \/ CallAsync(flag)

SpecAsm == InitAsm /\ [][NextAsm]_vars

----------------------------------------------------------------------------
(* Properties of HttpResponse *)

(* The five signals of a response, in the documented order. *)
Signals == <<resp.encoding,
             read_bom(resp.body),
             http_content_type_encoding(resp.headers),
             html_body_declared_encoding(resp.body),
             html_to_unicode(resp.headers, resp.body, TRUE, DEFAULT_ENCODING)[1]>>

Min(S) == CHOOSE x \in S : \A y \in S : x <= y

FirstNonNull == Signals[Min({i \in 1..5 : Signals[i] /= None} \cup {5})]

FirstTruthy == Signals[Min({i \in 1..5 : Truthy(Signals[i])} \cup {5})]

(* C1, as stated: encoding returns the first non-null signal in the order   *)
(* override, BOM, Content-Type header, in-body declaration, inference.      *)
C1_FirstNonNull == \A v \in encReturned : v = FirstNonNull

(* C1, amended: encoding returns the first signal that is neither null nor  *)
(* the empty string, in the same order; an empty override counts as absent. *)
C1_FirstTruthy == \A v \in encReturned : v = FirstTruthy

(* A BOM and a conflicting header charset: the BOM encoding was returned. *)
C1_Witness ==
    /\ resp.encoding = None
    /\ read_bom(resp.body) = "utf-16-le"
    /\ http_content_type_encoding(resp.headers) = "utf-8"
    /\ encReturned = {"utf-16-le"}

(* C3: with one caller, after any sequence of encoding and text accesses    *)
(* the body was decoded at most once, the text was stored at most once and  *)
(* every text access returned the same decoded value.                       *)
C3_DecodedOnce ==
    /\ decodes <= 1
    /\ stores <= 1
    /\ \A i \in 1..Len(textReturned) :
          /\ textReturned[i] /= NoText
          /\ textReturned[i] = textReturned[1]

(* Two text accesses and an encoding access on a response whose encoding    *)
(* came from the inference stage, which decoded as a side effect.           *)
C3_Witness ==
    /\ Len(textReturned) >= 2
    /\ encReturned /= {}
    /\ MemoCached("_body_inferred_encoding")
    /\ decodes = 1

(* C9: with concurrent callers the full-body decode runs at most once and   *)
(* the cached text is written at most once.                                 *)
C9_SingleFlight == decodes <= 1 /\ stores <= 1

----------------------------------------------------------------------------
(* Properties of request_fingerprint *)

(* str.lower(), to compare names without their letter case *)
lower(s) == [i \in 1..Len(s) |-> ToLower(s[i])]

(* The number of entries of h with the given lower-cased name and value. *)
CountCI(h, n, v) == Cardinality({i \in DOMAIN h : lower(h[i][1]) = n /\ h[i][2] = v})

(* The same collection of name/value pairs, names compared without case. *)
SameHeadersCI(h1, h2) ==
    /\ Len(h1) = Len(h2)
    /\ \A i \in DOMAIN h1 :
          CountCI(h1, lower(h1[i][1]), h1[i][2]) = CountCI(h2, lower(h1[i][1]), h1[i][2])

(* C2: two requests with the same method, URL and body whose headers are    *)
(* the same pairs up to the letter case of names and the insertion order    *)
(* have the same fingerprint.                                               *)
C2_HeaderOrderAndCase ==
    (/\ fp[1] /= NoFp
     /\ fp[2] /= NoFp
     /\ SameHeadersCI(req[1].headers, req[2].headers))
    => fp[1] = fp[2]

----------------------------------------------------------------------------
(* Properties of the decorator and the registration dict *)

RECURSIVE Ancestors(_)
Ancestors(c) == IF Parent[c] = None THEN {} ELSE {Parent[c]} \cup Ancestors(Parent[c])

(* C6: the registration set of every class holds exactly the names marked   *)
(* on the class itself and on its ancestors, so a declaration in a subclass *)
(* never shows in its parent or in a sibling.                               *)
C6_PerClassRegistration ==
    \A c \in classes :
        Range(FieldsOf(c)) = UNION {declared[k] : k \in {c} \cup Ancestors(c)}

NonCallable(m) == m \in Decorated /\ ~callable(m)

(* C8, as stated: decorating any non-callable, None included, in either     *)
(* form raises at decoration time.                                          *)
C8_EveryNonCallableRaises ==
    NonCallable(lastDecoration.kind) => lastDecoration.raised

(* C8, amended: decorating a non-callable raises at decoration time except  *)
(* for None in the bare form field(None), which returns the decorator and   *)
(* raises nothing; no attribute read ever raises for a non-callable.        *)
C8_NonCallableRaisesExceptBareNone ==
    /\ NonCallable(lastDecoration.kind) =>
          (lastDecoration.raised <=>
              ~(lastDecoration.kind = None /\ lastDecoration.form = "bare"))
    /\ (lastAccess /= NoAccess => lastAccess[3] /= "TypeError")

(* None was decorated in the parameterized form and the decoration raised;  *)
(* the class statement was abandoned.                                       *)
C8_Witness ==
    /\ lastDecoration = [kind |-> None, form |-> "call", raised |-> TRUE]
    /\ building = None

----------------------------------------------------------------------------
(* Properties of the assemblers *)

(* The assembler calls made so far *)
Results == Range(syncRes) \cup Range(asyncRes)

Keys(item) == [i \in DOMAIN item |-> item[i][1]]

(* The registered names restricted to S, in registration order *)
RECURSIVE Restrict(_, _)
Restrict(names, S) ==
    IF names = <<>> THEN <<>>
    ELSE (IF names[1] \in S THEN <<names[1]>> ELSE <<>>) \o Restrict(Tail(names), S)

(* C4: in every assembly, sync or async, filtered or not, the names bound   *)
(* to the item constructor come in registration order.                     *)
C4_RegistrationOrder ==
    \A r \in Results :
        r.outcome = "item" => Keys(r.item) = Restrict(obj.fields, Range(Keys(r.item)))

(* C5: with item_cls_fields=True and an item class that declares no field   *)
(* names, nothing is filtered and no error is raised, in both assemblers.   *)
C5_NoNamesNoFilterNoError ==
    \A r \in Results :
        (r.flag /\ ~item_cls.has_names) =>
            /\ r.exc /= <<"TypeError", "dict_keys">>
            /\ (r.outcome = "item" => Keys(r.item) = obj.fields)

(* C7: when the read or the await of a field raises during an assembly,     *)
(* that exception is the outcome, it is the last thing the assembly did,    *)
(* the item constructor was not called and no item was returned.            *)
C7_FailureAborts ==
    \A r \in Results :
        LET failedReads == {i \in DOMAIN r.evaluated : FieldRaises(obj, r.evaluated[i])}
            failedAwaits == {i \in DOMAIN r.awaited :
                                obj.impl[r.awaited[i]] = "awaitable_raises"}
        IN  /\ failedReads /= {} =>
                  /\ failedReads = {Len(r.evaluated)}
                  /\ r.awaited = <<>>
                  /\ r.exc = <<"exc", r.evaluated[Len(r.evaluated)]>>
            /\ failedAwaits /= {} =>
                  /\ failedAwaits = {Len(r.awaited)}
                  /\ r.exc = <<"exc", r.awaited[Len(r.awaited)]>>
            /\ (failedReads \cup failedAwaits) /= {} =>
                  /\ r.outcome = "raised"
                  /\ ~r.built
                  /\ r.item = <<>>

(* The asynchronous assembler failed on an awaitable that raises, after     *)
(* reading every field and awaiting another one; the item class was never   *)
(* called.                                                                  *)
C7_Witness ==
    /\ asyncRes /= <<>>
    /\ asyncRes[1].outcome = "raised"
    /\ Len(asyncRes[1].awaited) >= 2
    /\ asyncRes[1].exc = <<"exc", asyncRes[1].awaited[Len(asyncRes[1].awaited)]>>
    /\ ~asyncRes[1].built

PlainFields == \A n \in Range(obj.fields) : obj.impl[n] \in {"value", "raises"}

(* C10: for the same page object, item class and flag, with plain field     *)
(* values, both assemblers read the same fields and return equal items or   *)
(* fail alike; with the flag on, no field outside the item's declared names *)
(* is read.                                                                 *)
C10_AsyncMatchesSync ==
    (/\ syncRes /= <<>>
     /\ asyncRes /= <<>>
     /\ PlainFields)
    => /\ (syncRes[1].flag = asyncRes[1].flag =>
              /\ asyncRes[1].outcome = syncRes[1].outcome
              /\ asyncRes[1].exc = syncRes[1].exc
              /\ Range(asyncRes[1].item) = Range(syncRes[1].item)
              /\ Range(asyncRes[1].evaluated) = Range(syncRes[1].evaluated))
       /\ \A r \in Results :
              (r.flag /\ item_cls.has_names) => Range(r.evaluated) \subseteq item_cls.names

====
